---- MODULE Spec2Model ----
(***************************************************************************)
(* bao-bundler: a model of src/index.ts.                                   *)
(*                                                                         *)
(* src/index.ts holds three revisions of the bundler, one after another:   *)
(*   revision 1  lines   1-263  build() loads and saves the manifest       *)
(*   revision 2  lines 265-477  steps are started by forEach(async ...)    *)
(*   revision 3  lines 479-774  the manifest carries the steps, decoded    *)
(*                              against a registry of constructors         *)
(* The variable rev says which revision a behaviour runs.                  *)
(*                                                                         *)
(* A path is a sequence of segments; a string id is a sequence of tokens.  *)
(* The file system is a set of entries [p |-> absolute path, c |-> content]*)
(* where c = "dir" marks a directory that was created explicitly; every    *)
(* proper prefix of an entry's path is a directory as well.                *)
(***************************************************************************)
EXTENDS Integers, Sequences, FiniteSets, TLC

\* ---------------------------------------------------------------- bounds
MaxBuilds == 2
MaxEdits == 1
MaxRuns == 2

\* ------------------------------------------------------------ path model
\* the value `undefined` where a string is expected
Undefined == <<"<undefined>">>

IsPrefix(p, q) == Len(p) <= Len(q) /\ SubSeq(q, 1, Len(p)) = p

Parent(p) == SubSeq(p, 1, Len(p) - 1)

\* a mutant of basename: the first segment of the path
basenameFirst(p) == p[1]

basename(p) == p[Len(p)]

join(p, q) == p \o q

RECURSIVE normalize(_, _)
normalize(acc, rest) ==
  IF rest = <<>> THEN acc
  ELSE LET h == Head(rest) IN
       IF h = "." THEN normalize(acc, Tail(rest))
       ELSE IF h = ".."
            THEN normalize(IF acc = <<>> THEN acc ELSE Parent(acc), Tail(rest))
            ELSE normalize(Append(acc, h), Tail(rest))

\* a relative path taken against the working directory
resolve(dir, rel) == normalize(dir, rel)

TMP_PATH == <<".", ".bao_tmp">>
ASSETS_PATH == <<"assets">>
BUILD_PATH == <<"build">>

\* the order in which a directory walk lists names: fixed for a file system
SegOrder ==
  <<".", "..", ".bao_tmp", "a.ttf", "assets", "b.ttf", "build", "favicon.ico",
    "fonts", "missing.txt", "old.txt", "out", "proj", "sub">>

Rank(s) == IF \E i \in 1..Len(SegOrder) : SegOrder[i] = s
           THEN CHOOSE i \in 1..Len(SegOrder) : SegOrder[i] = s
           ELSE 0

RECURSIVE PathLess(_, _)
PathLess(p, q) ==
  IF p = <<>> THEN q # <<>>
  ELSE IF q = <<>> THEN FALSE
  ELSE IF Head(p) = Head(q) THEN PathLess(Tail(p), Tail(q))
  ELSE Rank(Head(p)) < Rank(Head(q))

RECURSIVE SortPaths(_)
SortPaths(S) ==
  IF S = {} THEN <<>>
  ELSE LET m == CHOOSE x \in S : \A y \in S \ {x} : PathLess(x, y)
       IN <<m>> \o SortPaths(S \ {m})

Reverse(s) == [i \in 1..Len(s) |-> s[Len(s) + 1 - i]]

\* the extension of a file name ("" when it has none)
ExtOf(name) ==
  CASE name \in {"a.ttf", "b.ttf"} -> "ttf"
    [] name = "favicon.ico" -> "ico"
    [] name \in {"missing.txt", "old.txt"} -> "txt"
    [] OTHER -> ""

\* ------------------------------------------------------ file system model
Exists(f, p) == \E e \in f : IsPrefix(p, e.p)

IsFile(f, p) == \E e \in f : e.p = p /\ e.c # "dir"

IsDir(f, p) == Exists(f, p) /\ ~IsFile(f, p)

\* some proper prefix of p is a regular file: p cannot be created
UnderFile(f, p) == \E i \in 0..(Len(p) - 1) : IsFile(f, SubSeq(p, 1, i))

Under(f, p) == {e \in f : IsPrefix(p, e.p)}

ContentOf(f, p) == (CHOOSE e \in f : e.p = p /\ e.c # "dir").c

FsOk(f) == [ok |-> TRUE, fs |-> f]
FsFail(f) == [ok |-> FALSE, fs |-> f]

\* rm(p, {recursive: true, force: true}) and `rm -rf p`
rm(f, p) ==
  (f \ Under(f, p)) \cup
  (IF Exists(f, p) /\ p # <<>> THEN {[p |-> Parent(p), c |-> "dir"]} ELSE {})

\* mkdir(p, {recursive: true}) and `mkdir -p p`
mkdirp(f, p) ==
  IF IsFile(f, p) \/ UnderFile(f, p) THEN FsFail(f)
  ELSE IF Exists(f, p) THEN FsOk(f)
  ELSE FsOk(f \cup {[p |-> p, c |-> "dir"]})

\* mkdir(p): the parent must exist and p must not
mkdir(f, p) ==
  IF Exists(f, p) \/ ~IsDir(f, Parent(p)) THEN FsFail(f)
  ELSE FsOk(f \cup {[p |-> p, c |-> "dir"]})

\* the entries of src moved under dst
Moved(f, src, dst) ==
  {[p |-> dst \o SubSeq(e.p, Len(src) + 1, Len(e.p)), c |-> e.c] : e \in Under(f, src)}

\* writing the entries W over f: a file replaces the file at its path
Overlay(f, W) ==
  {e \in f : ~\E w \in W : w.p = e.p} \cup W

\* an entry of W would put a file where f has a directory, or the reverse
Clash(f, W) ==
  \E w \in W :
     \/ w.c # "dir" /\ IsDir(f, w.p)
     \/ w.c = "dir" /\ IsFile(f, w.p)
     \/ UnderFile(f, w.p)

\* node:fs/promises cp(src, dst, {recursive: true})
cpRecursive(f, src, dst) ==
  IF ~Exists(f, src) THEN FsFail(f)
  ELSE IF IsPrefix(src, dst) THEN FsFail(f)
  ELSE LET W == IF IsFile(f, src)
                THEN {[p |-> dst, c |-> ContentOf(f, src)]}
                ELSE Moved(f, src, dst) \cup {[p |-> dst, c |-> "dir"]}
       IN IF Clash(f, W) THEN FsFail(f) ELSE FsOk(Overlay(f, W))

\* node:fs/promises cp(src, dst): a directory is refused
cpFile(f, src, dst) ==
  IF ~IsFile(f, src) THEN FsFail(f) ELSE cpRecursive(f, src, dst)

\* the shell's `cp -r src/* dst`: the glob must match something
cpGlob(f, src, dst) ==
  IF ~IsDir(f, src) \/ Under(f, src) \subseteq {[p |-> src, c |-> "dir"]}
  THEN FsFail(f)
  ELSE LET W == Moved(f, src, dst) \ {[p |-> dst, c |-> "dir"]}
       IN IF ~IsDir(f, dst) \/ Clash(f, W) THEN FsFail(f) ELSE FsOk(Overlay(f, W))

\* the tree below a directory, paths taken relative to it
Tree(f, root) ==
  LET rel(p) == SubSeq(p, Len(root) + 1, Len(p))
      files == {[p |-> rel(e.p), c |-> e.c] : e \in {x \in Under(f, root) : x.c # "dir"}}
      paths == {rel(e.p) : e \in Under(f, root)}
      dirs == UNION {{SubSeq(q, 1, i) : i \in 1..Len(q)} : q \in paths}
  IN files \cup {[p |-> d, c |-> "dir"] : d \in dirs \ {e.p : e \in files}}

\* --------------------------------------------------------------- selectors
\* what a flow resolves to and what a runner takes: a list of paths, one path
\* or undefined
List(v) == [k |-> "list", v |-> v]
Str(p) == [k |-> "str", v |-> p]
Undef == [k |-> "undef", v |-> <<>>]

\* JavaScript truthiness of a selector: undefined and "" are falsy, [] is not
Truthy(sel) == sel.k = "list" \/ (sel.k = "str" /\ sel.v # <<>>)

\* ------------------------------------------------------------------- flows
\* a flow instance: cls is the constructor's name; a VoidFileFlow / VoidFlow
\* keeps its filePath in source and has no dest; plain marks an object that
\* came out of JSON and has no methods
FolderFlow(source, dest, expand, extension) ==
  [cls |-> "FolderFlow", source |-> source, dest |-> dest, expand |-> expand,
   extension |-> extension, plain |-> FALSE]

FileFlow(source, dest) ==
  [cls |-> "FileFlow", source |-> source, dest |-> dest, expand |-> FALSE,
   extension |-> "", plain |-> FALSE]

VoidFileFlow(filePath) ==
  [cls |-> "VoidFileFlow", source |-> filePath, dest |-> Undefined, expand |-> FALSE,
   extension |-> "", plain |-> FALSE]

\* a path written as a string: its segments with "/" between them
RECURSIVE PathStr(_)
PathStr(p) ==
  IF Len(p) <= 1 THEN p ELSE <<Head(p), "/">> \o PathStr(Tail(p))

\* the id a flow's constructor computes
FlowId(r, fl) ==
  CASE fl.cls = "FolderFlow" ->
         IF r = 1 /\ fl.extension # ""
         THEN <<"FolderFlow", ":">> \o PathStr(fl.source) \o <<"#", fl.extension>>
         ELSE <<"FolderFlow", ":">> \o PathStr(fl.source)
    [] fl.cls = "FileFlow" -> <<"FileFlow", ":">> \o PathStr(fl.source)
    [] OTHER -> IF r = 1 THEN <<"VoidFileFlow", ":">> \o PathStr(fl.source)
                ELSE IF r = 2 THEN <<"VoidFlow">> ELSE <<"VoidFileFlow">>

\* `find dir -type f [-name "*.ext"]`: the paths as find prints them, dir first
find(f, dir, rel, ext, desc) ==
  LET abs == resolve(dir, rel)
      hits == {e.p : e \in {x \in Under(f, abs) :
                 x.c # "dir" /\ (ext = "" \/ ExtOf(basename(x.p)) = ext)}}
      listed == SortPaths({rel \o SubSeq(q, Len(abs) + 1, Len(q)) : q \in hits})
  IN [ok |-> Exists(f, abs), files |-> IF desc THEN Reverse(listed) ELSE listed]

Resolved(ok, files, dest, f) == [ok |-> ok, files |-> files, dest |-> dest, fs |-> f]

\* flow.execute(): the source and destination selectors, and the file system
\* it leaves (revision 1's FolderFlow creates its destination directory)
execute(r, fl, f, dir, desc) ==
  IF fl.plain THEN Resolved(FALSE, Undef, Undef, f)
  ELSE IF fl.cls = "FolderFlow" THEN
    IF r = 2 THEN
      LET fd == find(f, dir, join(join(TMP_PATH, ASSETS_PATH), fl.source), "", desc)
      IN Resolved(fd.ok, List(fd.files), Str(fl.dest), f)
    ELSE
      LET made == IF r = 1 THEN mkdirp(f, resolve(dir, fl.dest)) ELSE FsOk(f)
          fd == find(made.fs, dir, fl.source, IF r = 1 THEN fl.extension ELSE "", desc)
      IN IF ~made.ok THEN Resolved(FALSE, Undef, Undef, f)
         ELSE IF ~fl.expand THEN Resolved(TRUE, Str(fl.source), Str(fl.dest), made.fs)
         ELSE Resolved(fd.ok, List(fd.files), Str(fl.dest), made.fs)
  ELSE IF fl.cls = "FileFlow" THEN
    IF r = 2
    THEN Resolved(TRUE, List(<<join(join(TMP_PATH, ASSETS_PATH), fl.source)>>),
                  Str(fl.dest), f)
    ELSE Resolved(TRUE, Str(fl.source), Str(fl.dest), f)
  ELSE
    IF r = 2 THEN Resolved(TRUE, List(<<fl.source>>), Undef, f)
    ELSE Resolved(TRUE, IF fl.source = Undefined THEN Undef ELSE Str(fl.source), Undef, f)

\* ----------------------------------------------------------------- runners
CopyRunner(isFile) == [cls |-> "CopyRunner", isFile |-> isFile, plain |-> FALSE]

Ran(ok, f, done, diag) == [ok |-> ok, fs |-> f, done |-> done, diag |-> diag]

\* the copies of a list of <<source, destination>> pairs, one after another,
\* stopping at the first that throws; done lists the copies that were made
RECURSIVE copyEach(_, _, _, _, _)
copyEach(f, dir, pairs, done, recursive) ==
  IF pairs = <<>> THEN Ran(TRUE, f, done, FALSE)
  ELSE LET src == Head(pairs)[1]
           dst == Head(pairs)[2]
           r == IF src = Undefined \/ dst = Undefined THEN FsFail(f)
                ELSE IF recursive THEN cpRecursive(f, resolve(dir, src), resolve(dir, dst))
                ELSE cpFile(f, resolve(dir, src), resolve(dir, dst))
       IN IF ~r.ok THEN Ran(FALSE, f, done, FALSE)
          ELSE copyEach(r.fs, dir, Tail(pairs), Append(done, Head(pairs)), recursive)

\* a mutant of run13: a scalar source goes to the last element of a list
\* destination
run13LastDest(source, dest, f, dir) ==
  IF ~Truthy(source) \/ ~Truthy(dest) THEN Ran(TRUE, f, <<>>, TRUE)
  ELSE IF source.k = "list" /\ dest.k = "list" THEN
    copyEach(f, dir,
             [i \in 1..Len(source.v) |->
                <<source.v[i], IF i <= Len(dest.v) THEN dest.v[i] ELSE Undefined>>],
             <<>>, TRUE)
  ELSE IF source.k = "list" THEN
    copyEach(f, dir,
             [i \in 1..Len(source.v) |->
                <<source.v[i], join(dest.v, <<basename(source.v[i])>>)>>],
             <<>>, TRUE)
  ELSE IF dest.k = "list" THEN
    LET r == copyEach(f, dir,
                      <<<<source.v,
                          IF dest.v # <<>> THEN dest.v[Len(dest.v)] ELSE Undefined>>>>,
                      <<>>, TRUE)
    IN Ran(r.ok, r.fs, r.done, TRUE)
  ELSE copyEach(f, dir, <<<<source.v, dest.v>>>>, <<>>, TRUE)

\* CopyRunner.run of revisions 1 and 3
run13(source, dest, f, dir) ==
  IF ~Truthy(source) \/ ~Truthy(dest) THEN Ran(TRUE, f, <<>>, TRUE)
  ELSE IF source.k = "list" /\ dest.k = "list" THEN
    copyEach(f, dir,
             [i \in 1..Len(source.v) |->
                <<source.v[i], IF i <= Len(dest.v) THEN dest.v[i] ELSE Undefined>>],
             <<>>, TRUE)
  ELSE IF source.k = "list" THEN
    copyEach(f, dir,
             [i \in 1..Len(source.v) |->
                <<source.v[i], join(dest.v, <<basename(source.v[i])>>)>>],
             <<>>, TRUE)
  ELSE IF dest.k = "list" THEN
    LET r == copyEach(f, dir,
                      <<<<source.v, IF dest.v # <<>> THEN dest.v[1] ELSE Undefined>>>>,
                      <<>>, TRUE)
    IN Ran(r.ok, r.fs, r.done, TRUE)
  ELSE copyEach(f, dir, <<<<source.v, dest.v>>>>, <<>>, TRUE)

\* a mutant of run2: the file-mode switch is read the wrong way round
run2FileModeSwapped(runner, source, dest, f, dir) ==
  IF source.k # "list" THEN Ran(FALSE, f, <<>>, FALSE)
  ELSE LET paths == SelectSeq(source.v, LAMBDA q : q # <<>>)
       IN IF paths = <<>> THEN Ran(TRUE, f, <<>>, FALSE)
          ELSE IF dest.k # "str" THEN Ran(FALSE, f, <<>>, FALSE)
          ELSE copyEach(f, dir,
                 [i \in 1..Len(paths) |->
                    <<paths[i],
                      IF ~runner.isFile THEN join(TMP_PATH, dest.v)
                      ELSE join(join(TMP_PATH, dest.v), <<basename(paths[i])>>)>>],
                 <<>>, FALSE)

\* CopyRunner.run of revision 2: filePaths is iterated, path.join refuses an
\* undefined destPath
run2(runner, source, dest, f, dir) ==
  IF source.k # "list" THEN Ran(FALSE, f, <<>>, FALSE)
  ELSE LET paths == SelectSeq(source.v, LAMBDA q : q # <<>>)
       IN IF paths = <<>> THEN Ran(TRUE, f, <<>>, FALSE)
          ELSE IF dest.k # "str" THEN Ran(FALSE, f, <<>>, FALSE)
          ELSE copyEach(f, dir,
                 [i \in 1..Len(paths) |->
                    <<paths[i],
                      IF runner.isFile THEN join(TMP_PATH, dest.v)
                      ELSE join(join(TMP_PATH, dest.v), <<basename(paths[i])>>)>>],
                 <<>>, FALSE)

\* runner.run(source, dest)
run(r, runner, source, dest, f, dir) ==
  IF runner.plain THEN Ran(FALSE, f, <<>>, FALSE)
  ELSE IF r = 2 THEN run2(runner, source, dest, f, dir)
  ELSE run13(source, dest, f, dir)

\* ----------------------------------------------------------- tracked files
ToSet(s) == {s[i] : i \in 1..Len(s)}

\* new Set(s) read back in insertion order
RECURSIVE Dedupe(_)
Dedupe(s) ==
  IF s = <<>> THEN <<>>
  ELSE LET front == Dedupe(SubSeq(s, 1, Len(s) - 1))
           last == s[Len(s)]
       IN IF last \in ToSet(front) THEN front ELSE Append(front, last)

\* JSON.stringify of a Set, read back: an object that cannot be iterated
PlainObject == <<<<"{}">>>>

Tracked(fls, id) == IF id \in DOMAIN fls THEN fls[id] ELSE <<>>

Put(fls, id, v) == [x \in DOMAIN fls \cup {id} |-> IF x = id THEN v ELSE fls[x]]

\* a mutant of intersectTrack: the filtered array is kept, not a Set of it
intersectTrackNoSet(old, files) ==
  SelectSeq(old \o files, LAMBDA q : q \in ToSet(files))

\* a mutant of intersectTrack: the tracked set is read back newest first
intersectTrackNewestFirst(old, files) ==
  Reverse(Dedupe(SelectSeq(old \o files, LAMBDA q : q \in ToSet(files))))

\* new Set([...old, ...files].filter((f) => files.includes(f)))
intersectTrack(old, files) ==
  Dedupe(SelectSeq(old \o files, LAMBDA q : q \in ToSet(files)))

\* new Set([...old].filter((f) => !files.includes(f))), then add every file
unionTrack(old, files) ==
  Dedupe(SelectSeq(old, LAMBDA q : q \notin ToSet(files)) \o files)

Tracking(ok, fls, handed) == [ok |-> ok, flows |-> fls, handed |-> handed]

\* the part of executeStep / executeRunner between flow.execute() and
\* runner.run(): the tracked set is replaced and the runner's source chosen
track(r, fls, id, files) ==
  IF r = 1 THEN
    IF files.k = "list"
    THEN LET t == intersectTrack(Tracked(fls, id), files.v)
         IN Tracking(TRUE, Put(fls, id, t), List(t))
    ELSE Tracking(TRUE, fls, files)
  ELSE IF r = 2 THEN
    IF files.k # "list" \/ Tracked(fls, id) = PlainObject
    THEN Tracking(FALSE, fls, files)
    ELSE Tracking(TRUE, Put(fls, id, unionTrack(Tracked(fls, id), files.v)), files)
  ELSE
    LET filesArray == IF files.k = "list" THEN files.v
                      ELSE IF Truthy(files) THEN <<files.v>> ELSE <<>>
    IN Tracking(TRUE, Put(fls, id, intersectTrack(Tracked(fls, id), filesArray)), files)

\* ---------------------------------------------------------- manifest codec
NoManifest == [exists |-> FALSE]

NoConfig ==
  [present |-> FALSE, source |-> Undefined, dest |-> Undefined, expand |-> FALSE,
   extension |-> ""]

\* 'config' in flow ? flow.config : undefined
flowConfig(fl) ==
  IF fl.cls \in {"FolderFlow", "FileFlow"}
  THEN [present |-> TRUE, source |-> fl.source, dest |-> fl.dest, expand |-> fl.expand,
        extension |-> fl.extension]
  ELSE NoConfig

\* 'config' in runner ? runner.config : undefined (CopyRunner keeps none)
runnerConfig(runner) == NoConfig

encodeStep(step) ==
  [runner |-> [className |-> step.runner.cls, config |-> runnerConfig(step.runner)],
   flow |-> [className |-> step.flow.cls, config |-> flowConfig(step.flow)]]

\* an instance after JSON.stringify and a parse: its fields without its class
plainStep(step) ==
  [runner |-> [step.runner EXCEPT !.plain = TRUE],
   flow |-> [step.flow EXCEPT !.plain = TRUE]]

\* Project.toJSON(), parsed: the manifest document
toJSON(r, proj) ==
  [exists |-> TRUE,
   name |-> proj.name,
   dependencies |-> proj.dependencies,
   flows |-> IF r = 2 THEN [id \in DOMAIN proj.flows |-> PlainObject] ELSE proj.flows,
   steps |-> IF r = 3 THEN [i \in 1..Len(proj.steps) |-> encodeStep(proj.steps[i])]
             ELSE <<>>,
   runners |-> IF r = 2 THEN [i \in 1..Len(proj.steps) |-> plainStep(proj.steps[i])]
               ELSE <<>>]

NoProject == [exists |-> FALSE]

Project(name, dependencies, fls, steps) ==
  [exists |-> TRUE, name |-> name, dependencies |-> dependencies, flows |-> fls,
   steps |-> steps]

NoError == [kind |-> "none", cls |-> ""]
Error(kind, cls) == [kind |-> kind, cls |-> cls]

Loaded(proj, error) == [project |-> proj, error |-> error]

\* new Class(config) for a class of the registry
construct(className, config) ==
  CASE className = "CopyRunner" -> [ok |-> TRUE, obj |-> CopyRunner(FALSE)]
    [] className = "FolderFlow" ->
         [ok |-> config.present,
          obj |-> FolderFlow(config.source, config.dest, config.expand, config.extension)]
    [] className = "FileFlow" ->
         [ok |-> config.present, obj |-> FileFlow(config.source, config.dest)]
    [] OTHER -> [ok |-> TRUE, obj |-> VoidFileFlow(Undefined)]

\* a mutant of decodeSteps: a step that names an unknown class is left out
RECURSIVE decodeStepsLenient(_, _, _)
decodeStepsLenient(encoded, registry, done) ==
  IF encoded = <<>> THEN [steps |-> done, error |-> NoError]
  ELSE LET s == Head(encoded)
           rn == construct(s.runner.className, s.runner.config)
           fl == construct(s.flow.className, s.flow.config)
       IN IF s.runner.className \notin registry.runners
             \/ s.flow.className \notin registry.flows
          THEN decodeStepsLenient(Tail(encoded), registry, done)
          ELSE IF ~rn.ok \/ ~fl.ok THEN [steps |-> <<>>, error |-> Error("TypeError", "")]
          ELSE decodeStepsLenient(Tail(encoded), registry,
                                  Append(done, [runner |-> rn.obj, flow |-> fl.obj]))

\* the first error of manifest.steps.map(...): of each step the runner is
\* looked up and constructed first, then the flow
RECURSIVE decodeSteps(_, _, _)
decodeSteps(encoded, registry, done) ==
  IF encoded = <<>> THEN [steps |-> done, error |-> NoError]
  ELSE LET s == Head(encoded)
           rn == construct(s.runner.className, s.runner.config)
           fl == construct(s.flow.className, s.flow.config)
       IN IF s.runner.className \notin registry.runners
          THEN [steps |-> <<>>, error |-> Error("classNotFound", s.runner.className)]
          ELSE IF ~rn.ok THEN [steps |-> <<>>, error |-> Error("TypeError", "")]
          ELSE IF s.flow.className \notin registry.flows
          THEN [steps |-> <<>>, error |-> Error("classNotFound", s.flow.className)]
          ELSE IF ~fl.ok THEN [steps |-> <<>>, error |-> Error("TypeError", "")]
          ELSE decodeSteps(Tail(encoded), registry,
                           Append(done, [runner |-> rn.obj, flow |-> fl.obj]))

\* revision 1: project.loadFromManifest() replaces dependencies and flows
loadFromManifest1(proj, doc) ==
  IF ~doc.exists THEN Loaded(proj, Error("manifestFileNotfound", ""))
  ELSE Loaded([proj EXCEPT !.dependencies = doc.dependencies, !.flows = doc.flows],
              NoError)

\* revision 2: Project.loadFromManifest(); !manifestFile.exists() negates a
\* promise, so the throw below it is never reached and require() decides
loadFromManifest2(doc) ==
  IF ~doc.exists THEN Loaded(NoProject, Error("moduleNotFound", ""))
  ELSE Loaded(Project(doc.name, doc.dependencies, doc.flows, doc.runners), NoError)

\* revision 3: Project.loadFromManifest({runners, flows})
loadFromManifest3(doc, registry) ==
  IF ~doc.exists THEN Loaded(NoProject, Error("manifestFileNotfound", ""))
  ELSE LET d == decodeSteps(doc.steps, registry, <<>>)
       IN IF d.error # NoError THEN Loaded(NoProject, d.error)
          ELSE Loaded(Project(doc.name, doc.dependencies, doc.flows, d.steps), NoError)

\* ------------------------------------------------------------------- state
VARIABLES
  rev,       \* the revision of src/index.ts that runs: 1, 2 or 3
  script,    \* the project the directory's build script constructs
  findDesc,  \* the order of directory walks on this file system
  fs,        \* the file system
  manifest,  \* the document in ./bao.manifest.json, or NoManifest
  cwd,       \* process.cwd()
  project,   \* the Project of the running script, or NoProject
  pc,        \* "script": no build() in flight; "loop": build() is in its
             \* steps; "publish": build() is past its steps; "failed": an
             \* error reached the top of the script
  st,        \* of each step: "idle", "started" (flow.execute() called),
             \* "running" (runner.run() called), "done" or "failed"
  res,       \* of each step: what its flow resolved to, what the runner got
  builds,    \* build() calls so far
  edits,     \* changes made to the asset tree so far
  obs        \* observations of the last build() and loadFromManifest() call

vars == <<rev, script, findDesc, fs, manifest, cwd, project, pc, st, res, builds, edits, obs>>

ProjRoot == <<"proj">>
OutDir == join(ProjRoot, BUILD_PATH)
StageDir == resolve(ProjRoot, TMP_PATH)

File(p, c) == [p |-> join(ProjRoot, p), c |-> c]

\* the asset trees a project directory starts with
AssetTrees ==
  { {File(<<"assets", "fonts", "a.ttf">>, "c1"),
     File(<<"assets", "fonts", "sub", "a.ttf">>, "c2"),
     File(<<"assets", "favicon.ico">>, "c1")},
    {File(<<"assets", "fonts", "a.ttf">>, "c1"),
     File(<<"assets", "fonts", "b.ttf">>, "c2")} }

\* what an earlier build may have left in build/ and in the staging area
PriorBuilds ==
  { {}, {File(<<"build", "old.txt">>, "c1"), File(<<".bao_tmp", "build", "old.txt">>, "c2")} }

\* the changes a user makes to assets/ between builds
Edited(f, e) ==
  CASE e = "remove" -> rm(f, join(ProjRoot, <<"assets", "fonts", "a.ttf">>))
    [] e = "rewrite" ->
         Overlay(f, {File(<<"assets", "fonts", "a.ttf">>, "c2")})
    [] OTHER -> Overlay(f, {File(<<"assets", "favicon.ico">>, "c2")})

Edits == {"remove", "rewrite", "add"}

Step(runner, flow) == [runner |-> runner, flow |-> flow]

VoidFlow(filePath) == [VoidFileFlow(filePath) EXCEPT !.cls = "VoidFlow"]

\* the projects the build scripts construct: revisions 1 and 3 name paths
\* below the staging directory, revision 2 below its assets/
Configs(r) ==
  IF r = 2 THEN
    { [dependencies |-> <<>>,
       steps |-> <<Step(CopyRunner(TRUE),
                        FileFlow(<<"favicon.ico">>, <<"favicon.ico">>)),
                   Step(CopyRunner(FALSE), FolderFlow(<<"fonts">>, <<"fonts">>, FALSE, ""))>>],
      [dependencies |-> [d \in {"left-pad"} |-> "1.0"],
       steps |-> <<Step(CopyRunner(FALSE), VoidFlow(<<"favicon.ico">>)),
                   Step(CopyRunner(FALSE), VoidFlow(<<"old.txt">>))>>] }
  ELSE
    { [dependencies |-> <<>>,
       steps |-> <<Step(CopyRunner(FALSE),
                        FolderFlow(<<"assets", "fonts">>, <<"build", "fonts">>, TRUE, "")),
                   Step(CopyRunner(FALSE),
                        FileFlow(<<"assets", "favicon.ico">>, <<"build", "favicon.ico">>)),
                   Step(CopyRunner(FALSE),
                        FolderFlow(<<"assets", "fonts">>, <<"build", "out">>, FALSE, ""))>>],
      [dependencies |-> [d \in {"left-pad"} |-> "1.0"],
       steps |-> <<Step(CopyRunner(FALSE), VoidFileFlow(<<"assets", "favicon.ico">>)),
                   Step(CopyRunner(FALSE),
                        FolderFlow(<<"assets", "fonts">>, <<"build">>, TRUE, "ttf"))>>],
      [dependencies |-> <<>>,
       steps |-> <<Step(CopyRunner(FALSE),
                        FileFlow(<<"assets", "fonts", "a.ttf">>, <<"build", "a.ttf">>)),
                   Step(CopyRunner(FALSE),
                        FolderFlow(<<"build">>, <<"build", "out">>, TRUE, ""))>>] }

\* the registries a script hands to loadFromManifest
Registries ==
  { [runners |-> {"CopyRunner"}, flows |-> {"FolderFlow", "FileFlow", "VoidFileFlow"}],
    [runners |-> {"CopyRunner"}, flows |-> {"FolderFlow", "FileFlow"}],
    [runners |-> {}, flows |-> {"FolderFlow", "FileFlow", "VoidFileFlow"}] }

NoLoad == [called |-> FALSE]

NoBuild ==
  [outcome |-> "none", phase |-> "none", cwd0 |-> ProjRoot, out0 |-> {},
   repeat |-> FALSE, before |-> {}]

NoHistory == [valid |-> FALSE, out |-> {}, steps |-> <<>>]

NoRun == [called |-> FALSE, count |-> 0]

Init ==
  /\ rev \in {1, 2, 3}
  /\ findDesc \in BOOLEAN
  /\ script \in Configs(rev)
  /\ \E a \in AssetTrees, o \in PriorBuilds : fs = a \cup o
  /\ manifest = NoManifest
  /\ cwd = ProjRoot
  /\ project = NoProject
  /\ pc = "script"
  /\ st = <<>>
  /\ res = <<>>
  /\ builds = 0
  /\ edits = 0
  /\ obs = [load |-> NoLoad, build |-> NoBuild, history |-> NoHistory,
            encoded |-> NoProject, run |-> NoRun]

\* ------------------------------------------------------------------ build
\* stage 1 of build(): the staging area is cleared and filled from assets/
stage(r, f, dir) ==
  LET staging == resolve(dir, join(TMP_PATH, ASSETS_PATH))
      cleared == IF r = 1 THEN rm(f, resolve(dir, join(<<"..">>, TMP_PATH)))
                 ELSE rm(f, resolve(dir, TMP_PATH))
      made == mkdirp(cleared, staging)
  IN IF ~made.ok THEN made
     ELSE IF r = 1 THEN cpRecursive(made.fs, resolve(dir, ASSETS_PATH), staging)
     ELSE cpGlob(made.fs, resolve(dir, ASSETS_PATH), staging)

\* the working directory the steps run in
stagedCwd(r, dir) == IF r = 2 THEN dir ELSE resolve(dir, TMP_PATH)

Published(ok, f, dir) == [ok |-> ok, fs |-> f, cwd |-> dir]

\* stage 3 of build(): the staged build/ is copied to the output directory
publishOutput(r, f, dir) ==
  IF r = 1 THEN
    LET root == resolve(dir, <<".", "..">>)
        out == resolve(root, BUILD_PATH)
        made == mkdir(rm(f, out), out)
        copied == cpRecursive(made.fs, resolve(root, join(TMP_PATH, BUILD_PATH)), out)
    IN IF ~made.ok THEN Published(FALSE, made.fs, root)
       ELSE Published(copied.ok, copied.fs, root)
  ELSE
    LET out == resolve(dir, join(<<"..">>, BUILD_PATH))
        made == mkdirp(f, out)
        copied == cpGlob(made.fs, resolve(dir, BUILD_PATH), out)
    IN IF ~made.ok THEN Published(FALSE, made.fs, dir)
       ELSE IF ~copied.ok THEN Published(FALSE, copied.fs, dir)
       ELSE Published(TRUE, copied.fs, resolve(dir, <<".", "..">>))

NoResolution == [files |-> Undef, dest |-> Undef, handed |-> Undef]

Failed(phase) ==
  [obs EXCEPT !.build.outcome = "failed", !.build.phase = phase,
              !.history = NoHistory]

Settled == \A i \in DOMAIN st : st[i] \in {"done", "failed"}

\* new Project(name, steps) / new Project(name, {dependencies, steps})
newProject ==
  /\ pc = "script" /\ ~project.exists
  /\ project' = Project("bao", script.dependencies, <<>>, script.steps)
  /\ st' = <<>> /\ res' = <<>>
  /\ UNCHANGED <<rev, script, findDesc, fs, manifest, cwd, pc, builds, edits, obs>>

\* the script's call of the static Project.loadFromManifest (revisions 2, 3);
\* only 'manifestFileNotfound' is caught by the script
loadFromManifest ==
  /\ pc = "script" /\ ~project.exists /\ rev # 1
  /\ \E registry \in Registries :
       /\ rev = 2 => registry.runners = {}
       /\ LET got == IF rev = 2 THEN loadFromManifest2(manifest)
                     ELSE loadFromManifest3(manifest, registry)
          IN /\ project' = got.project
             /\ pc' = IF got.error.kind \in {"none", "manifestFileNotfound"}
                      THEN "script" ELSE "failed"
             /\ obs' = [obs EXCEPT !.load =
                          [called |-> TRUE, doc |-> manifest, from |-> obs.encoded,
                           registry |-> registry, result |-> got]]
  /\ st' = <<>> /\ res' = <<>>
  /\ UNCHANGED <<rev, script, findDesc, fs, manifest, cwd, builds, edits>>

\* project.saveToManifest()
saveToManifest ==
  /\ pc = "script" /\ project.exists /\ obs.build.outcome = "ok"
  /\ manifest' = toJSON(rev, project)
  /\ obs' = [obs EXCEPT !.encoded = project]
  /\ UNCHANGED <<rev, script, findDesc, fs, cwd, project, pc, st, res, builds, edits>>

\* project.build() up to its first step: revision 1 reads the manifest, the
\* staging area is filled, revisions 1 and 3 change the working directory;
\* revision 2 starts every step at once and returns
build ==
  /\ pc = "script" /\ project.exists /\ builds < MaxBuilds
  /\ \A i \in DOMAIN st : st[i] = "done"
  /\ LET got == IF rev = 1 THEN loadFromManifest1(project, manifest)
                ELSE Loaded(project, NoError)
         staged == stage(rev, fs, cwd)
         n == Len(project.steps)
         called == [obs EXCEPT
                      !.build = [outcome |-> "running", phase |-> "stage", cwd0 |-> cwd,
                                 out0 |-> Tree(fs, resolve(cwd, BUILD_PATH)),
                                 repeat |-> obs.history.valid
                                              /\ obs.history.steps = project.steps,
                                 before |-> obs.history.out],
                      !.load = IF rev = 1
                               THEN [called |-> TRUE, doc |-> manifest,
                                     from |-> obs.encoded,
                                     registry |-> [runners |-> {}, flows |-> {}],
                                     result |-> [got EXCEPT !.project =
                                                   IF got.error = NoError
                                                   THEN got.project ELSE NoProject]]
                               ELSE NoLoad]
     IN /\ project' = got.project
        /\ fs' = staged.fs
        /\ builds' = builds + 1
        /\ res' = [i \in 1..n |-> NoResolution]
        /\ IF ~staged.ok
           THEN /\ pc' = "failed"
                /\ cwd' = cwd
                /\ st' = [i \in 1..n |-> "idle"]
                /\ obs' = [called EXCEPT !.build.outcome = "failed", !.history = NoHistory]
           ELSE /\ cwd' = stagedCwd(rev, cwd)
                /\ IF rev = 2
                   THEN /\ pc' = "script"
                        /\ st' = [i \in 1..n |-> "started"]
                        /\ obs' = [called EXCEPT !.build.outcome = "ok",
                                                 !.build.phase = "returned"]
                   ELSE /\ pc' = IF n = 0 THEN "publish" ELSE "loop"
                        /\ st' = [i \in 1..n |-> IF i = 1 THEN "started" ELSE "idle"]
                        /\ obs' = [called EXCEPT !.build.phase = "steps"]
  /\ UNCHANGED <<rev, script, findDesc, manifest, edits>>

\* a step after `await flow.execute()`: the tracked set of the flow's id is
\* replaced and runner.run() is called
flowResolved(i) ==
  /\ st[i] = "started"
  /\ LET step == project.steps[i]
         ex == execute(rev, step.flow, fs, cwd, findDesc)
         tr == track(rev, project.flows, FlowId(rev, step.flow), ex.files)
     IN /\ fs' = ex.fs
        /\ IF ex.ok /\ tr.ok
           THEN /\ project' = [project EXCEPT !.flows = tr.flows]
                /\ res' = [res EXCEPT ![i] =
                             [files |-> ex.files, dest |-> ex.dest, handed |-> tr.handed]]
                /\ st' = [st EXCEPT ![i] = "running"]
                /\ UNCHANGED <<pc, obs>>
           ELSE /\ st' = [st EXCEPT ![i] = "failed"]
                /\ pc' = IF rev = 2 THEN pc ELSE "failed"
                /\ obs' = IF rev = 2 THEN obs ELSE Failed("steps")
                /\ UNCHANGED <<project, res>>
  /\ UNCHANGED <<rev, script, findDesc, manifest, cwd, builds, edits>>

\* a mutant of runnerDone: the error of a runner is caught and the loop goes on
runnerDoneSwallowsError(i) ==
  /\ st[i] = "running"
  /\ LET ran == run(rev, project.steps[i].runner, res[i].handed, res[i].dest, fs, cwd)
     IN /\ fs' = ran.fs
        /\ st' = [j \in DOMAIN st |->
                    IF j = i THEN (IF ran.ok THEN "done" ELSE "failed")
                    ELSE IF rev # 2 /\ j = i + 1 THEN "started" ELSE st[j]]
        /\ pc' = IF rev # 2 /\ i = Len(st) THEN "publish" ELSE pc
        /\ obs' = obs
  /\ UNCHANGED <<rev, script, findDesc, manifest, cwd, project, res, builds, edits>>

\* a step after `await runner.run(...)`: the loop of revisions 1 and 3 goes
\* on to the next step
runnerDone(i) ==
  /\ st[i] = "running"
  /\ LET ran == run(rev, project.steps[i].runner, res[i].handed, res[i].dest, fs, cwd)
     IN /\ fs' = ran.fs
        /\ IF ran.ok
           THEN /\ st' = [j \in DOMAIN st |->
                           IF j = i THEN "done"
                           ELSE IF rev # 2 /\ j = i + 1 THEN "started" ELSE st[j]]
                /\ pc' = IF rev # 2 /\ i = Len(st) THEN "publish" ELSE pc
                /\ obs' = obs
           ELSE /\ st' = [st EXCEPT ![i] = "failed"]
                /\ pc' = IF rev = 2 THEN pc ELSE "failed"
                /\ obs' = IF rev = 2 THEN obs ELSE Failed("steps")
  /\ UNCHANGED <<rev, script, findDesc, manifest, cwd, project, res, builds, edits>>

\* build() after its steps (revisions 1 and 3): the output is published,
\* the working directory changed back; revision 1 saves the manifest
publish ==
  /\ pc = "publish"
  /\ LET pub == publishOutput(rev, fs, cwd)
     IN /\ fs' = pub.fs
        /\ cwd' = pub.cwd
        /\ IF pub.ok
           THEN /\ pc' = "script"
                /\ manifest' = IF rev = 1 THEN toJSON(rev, project) ELSE manifest
                /\ obs' = [obs EXCEPT
                     !.build.outcome = "ok",
                     !.build.phase = "returned",
                     !.history = [valid |-> TRUE,
                                  out |-> Tree(pub.fs, resolve(pub.cwd, BUILD_PATH)),
                                  steps |-> project.steps],
                     !.encoded = IF rev = 1 THEN project ELSE obs.encoded]
           ELSE /\ pc' = "failed"
                /\ manifest' = manifest
                /\ obs' = Failed("publish")
  /\ UNCHANGED <<rev, script, findDesc, project, st, res, builds, edits>>

\* the script ends, by itself or by an uncaught error, and a later run of it
\* starts in the project directory
exit ==
  /\ \/ pc = "failed"
     \/ /\ pc = "script" /\ project.exists
        /\ Settled \/ \E i \in DOMAIN st : st[i] = "failed"
  /\ project' = NoProject
  /\ pc' = "script"
  /\ cwd' = ProjRoot
  /\ st' = <<>> /\ res' = <<>>
  /\ obs' = [obs EXCEPT !.load = NoLoad, !.build = NoBuild]
  /\ UNCHANGED <<rev, script, findDesc, fs, manifest, builds, edits>>

\* the user changes the asset tree while no build is going on
edit ==
  /\ pc = "script" /\ edits < MaxEdits /\ Settled
  /\ \E e \in Edits : fs' = Edited(fs, e)
  /\ edits' = edits + 1
  /\ obs' = [obs EXCEPT !.history = NoHistory]
  /\ UNCHANGED <<rev, script, findDesc, manifest, cwd, project, pc, st, res, builds>>

Next ==
  \/ newProject
  \/ loadFromManifest
  \/ saveToManifest
  \/ build
  \/ \E i \in DOMAIN st : flowResolved(i)
  \/ \E i \in DOMAIN st : runnerDone(i)
  \/ publish
  \/ exit
  \/ edit

Spec == Init /\ [][Next]_vars

\* ------------------------------------------------- CopyRunner.run, directly
\* the sources and destinations a caller of CopyRunner.run passes, taken
\* against the project directory
RunSources ==
  { Undef,
    Str(<<"assets", "fonts">>),
    Str(<<"assets", "fonts", "a.ttf">>),
    List(<<>>),
    List(<<<<"assets", "fonts", "a.ttf">>>>),
    List(<<<<"assets", "fonts", "a.ttf">>, <<"assets", "fonts", "sub", "a.ttf">>>>),
    List(<<<<"assets", "fonts", "a.ttf">>, <<"assets", "fonts", "b.ttf">>>>),
    List(<<<<"assets", "missing.txt">>, <<"assets", "fonts", "a.ttf">>>>) }

RunDests ==
  { Undef,
    Str(<<"out">>),
    List(<<>>),
    List(<<<<"out", "a.ttf">>>>),
    List(<<<<"out", "a.ttf">>, <<"out", "b.ttf">>>>) }

\* a script calls new CopyRunner(config).run(source, dest); only revision 2
\* has a config, and its run() takes a list
callRun ==
  /\ obs.run.count < MaxRuns
  /\ \E source \in RunSources, dest \in RunDests, isFile \in BOOLEAN :
       /\ rev # 2 => ~isFile
       /\ rev = 2 => source.k # "str"
       /\ LET ran == run(rev, CopyRunner(isFile), source, dest, fs, cwd)
          IN /\ fs' = ran.fs
             /\ obs' = [obs EXCEPT !.run =
                          [called |-> TRUE, count |-> obs.run.count + 1,
                           runner |-> CopyRunner(isFile), source |-> source,
                           dest |-> dest, before |-> fs, result |-> ran]]
  /\ UNCHANGED <<rev, script, findDesc, manifest, cwd, project, pc, st, res, builds, edits>>

RunNext == callRun

\* the runner does not read the script's project or walk a directory
RunInit == Init /\ ~findDesc /\ script.dependencies = <<>> /\ Len(script.steps) = 2

RunSpec == RunInit /\ [][RunNext]_vars

\* ------------------------------------------------------------------ claims
InProgress == {i \in DOMAIN st : st[i] \in {"started", "running"}}

\* C1: build() runs its steps in declared order and one at a time: the flow
\* of step i+1 is resolved only after the runner of step i has completed,
\* and no two steps are in progress at once.
C1_StepsOneAtATime ==
  /\ \A i \in DOMAIN st : i > 1 /\ st[i] \in {"running", "done"} => st[i - 1] = "done"
  /\ Cardinality(InProgress) <= 1

\* C2: when build() has resolved the flow of a step to a file list L, the
\* tracked set under the flow's id is exactly the set of elements of L,
\* whatever was tracked under that id before.
C2_TrackedIsResolution ==
  [][\A i \in DOMAIN st :
       (st[i] = "started" /\ st'[i] = "running" /\ res'[i].files.k = "list")
         => ToSet(Tracked(project'.flows, FlowId(rev, project.steps[i].flow)))
              = ToSet(res'[i].files.v)]_vars

\* C3: when the flow resolution or the runner of a step fails, no later step
\* is resolved or run, and the error reaches the caller of build().
C3_FailFast ==
  \A i \in DOMAIN st :
     st[i] = "failed" =>
       /\ \A j \in DOMAIN st : j > i => st[j] \notin {"running", "done"}
       /\ pc = "failed" /\ obs.build.outcome = "failed"

\* C4: after a successful build() the output directory holds exactly the
\* build-output subtree of the staging area, and nothing of a prior output.
C4_OutputIsStagedOutput ==
  (rev # 2 /\ obs.build.outcome = "ok")
    => Tree(fs, OutDir) = Tree(fs, join(StageDir, BUILD_PATH))

UsedClasses(proj) ==
  [runners |-> {proj.steps[i].runner.cls : i \in DOMAIN proj.steps},
   flows |-> {proj.steps[i].flow.cls : i \in DOMAIN proj.steps}]

Covers(registry, proj) ==
  /\ UsedClasses(proj).runners \subseteq registry.runners
  /\ UsedClasses(proj).flows \subseteq registry.flows

\* C6: a manifest encoded from a Project and decoded with a registry that has
\* every class the Project uses gives the same steps in the same order, the
\* same flow ids and the same dependency map.
C6_RoundTrip ==
  (rev = 3 /\ obs.load.called /\ obs.load.from.exists
     /\ Covers(obs.load.registry, obs.load.from))
    => /\ obs.load.result.error = NoError
       /\ obs.load.result.project.steps = obs.load.from.steps
       /\ obs.load.result.project.dependencies = obs.load.from.dependencies
       /\ \A i \in DOMAIN obs.load.from.steps :
            FlowId(rev, obs.load.result.project.steps[i].flow)
              = FlowId(rev, obs.load.from.steps[i].flow)

\* the class names of a manifest's steps that the registry lacks
MissingClasses(doc, registry) ==
  ({doc.steps[i].runner.className : i \in DOMAIN doc.steps} \ registry.runners)
    \cup ({doc.steps[i].flow.className : i \in DOMAIN doc.steps} \ registry.flows)

\* C7: decoding a manifest of which a step names a class the registry lacks
\* fails with a class-not-found error that names a missing class, and gives
\* no Project.
C7_ClassNotFound ==
  (rev = 3 /\ obs.load.called /\ obs.load.doc.exists
     /\ MissingClasses(obs.load.doc, obs.load.registry) # {})
    => /\ ~obs.load.result.project.exists
       /\ ~project.exists
       /\ obs.load.result.error.kind = "classNotFound"
       /\ obs.load.result.error.cls \in MissingClasses(obs.load.doc, obs.load.registry)

C7_Witness ==
  /\ rev = 3 /\ obs.load.called /\ obs.load.doc.exists
  /\ MissingClasses(obs.load.doc, obs.load.registry) # {}
  /\ obs.load.registry.runners # {}

\* C8: loadFromManifest without a manifest file raises 'manifestFileNotfound'
\* and nothing else, and gives no Project.
C8_ManifestNotFound ==
  (obs.load.called /\ ~obs.load.doc.exists)
    => /\ obs.load.result.error.kind = "manifestFileNotfound"
       /\ ~obs.load.result.project.exists

\* C9: whenever build() ends, by completing or by failing in a step, the
\* working directory is the one build() was called in.
C9_CwdRestored ==
  (obs.build.outcome = "ok" \/ (obs.build.outcome = "failed" /\ obs.build.phase = "steps"))
    => cwd = obs.build.cwd0

\* C10: CopyRunner.run with a list source and a list destination of different
\* lengths fails at once with a configuration error, before anything is
\* copied.
C10_LengthMismatchFails ==
  (obs.run.called /\ obs.run.source.k = "list" /\ obs.run.dest.k = "list"
     /\ Len(obs.run.source.v) # Len(obs.run.dest.v))
    => /\ ~obs.run.result.ok
       /\ obs.run.result.done = <<>>
       /\ obs.run.result.fs = obs.run.before

\* ---- claims about CopyRunner.run, checked under RunSpec
\* the name of the file a path ends in
FileName(p) == p[Len(p)]

\* the absolute path an item of a list source is copied to below a scalar
\* destination directory
FlatTarget(dest, item) == resolve(cwd, join(dest.v, <<FileName(item)>>))

\* the last item of a list that has the basename of item i
LastNamed(src, i) ==
  src[CHOOSE j \in i..Len(src) :
        /\ FileName(src[j]) = FileName(src[i])
        /\ \A k \in (j + 1)..Len(src) : FileName(src[k]) # FileName(src[i])]

\* C11: CopyRunner.run with a list source and a scalar destination copies
\* every item to dest/basename(item), one copy per item in list order; two
\* items of the same basename go to one path and the later one remains.
C11_ListToDirFlattens ==
  (obs.run.called /\ rev # 2 /\ obs.run.source.k = "list" /\ obs.run.dest.k = "str")
    => LET src == obs.run.source.v
           dest == obs.run.dest
           before == obs.run.before
           ran == obs.run.result
       IN /\ Len(ran.done) <= Len(src)
          /\ ran.done = [i \in 1..Len(ran.done) |->
                           <<src[i], join(dest.v, <<FileName(src[i])>>)>>]
          /\ (\A i \in 1..Len(src) :
                /\ IsFile(before, resolve(cwd, src[i]))
                /\ ~IsDir(before, FlatTarget(dest, src[i]))
                /\ ~UnderFile(before, FlatTarget(dest, src[i]))) => ran.ok
          /\ ran.ok =>
               /\ Len(ran.done) = Len(src)
               /\ \A i \in 1..Len(src) :
                    /\ IsFile(ran.fs, FlatTarget(dest, src[i]))
                    /\ ContentOf(ran.fs, FlatTarget(dest, src[i]))
                         = ContentOf(before, resolve(cwd, LastNamed(src, i)))
               /\ {e \in ran.fs : e.c # "dir"} \ {e \in before : e.c # "dir"}
                    \subseteq {e \in ran.fs :
                                 \E i \in 1..Len(src) : e.p = FlatTarget(dest, src[i])}

C11_Witness ==
  /\ obs.run.called /\ rev # 2 /\ obs.run.result.ok
  /\ obs.run.dest = Str(<<"out">>)
  /\ obs.run.source =
       List(<<<<"assets", "fonts", "a.ttf">>, <<"assets", "fonts", "sub", "a.ttf">>>>)
  /\ [p |-> join(ProjRoot, <<"out", "a.ttf">>), c |-> "c2"] \in fs

C13_AbsentIsNoOp ==
  (obs.run.called
     /\ (obs.run.source = Undef \/ obs.run.dest = Undef \/ obs.run.source = List(<<>>)))
    => /\ obs.run.result.ok
       /\ obs.run.result.done = <<>>
       /\ obs.run.result.fs = obs.run.before

\* the path an item of a list source is copied to: revision 2 takes every
\* destination below the staging directory, and only it has a file mode
ModeTarget(runner, dest, item) ==
  LET d == IF rev = 2 THEN join(TMP_PATH, dest.v) ELSE dest.v
  IN IF rev = 2 /\ runner.isFile THEN d ELSE join(d, <<FileName(item)>>)

\* C15: for a list source and a scalar destination, a CopyRunner in file mode
\* copies each item to the destination itself, and a CopyRunner without file
\* mode copies each item to dest/basename(item).
C15_FileModeIsLiteral ==
  (obs.run.called /\ obs.run.source.k = "list" /\ obs.run.dest.k = "str")
    => LET src == obs.run.source.v
           target(i) == ModeTarget(obs.run.runner, obs.run.dest, src[i])
           before == obs.run.before
           ran == obs.run.result
       IN /\ Len(ran.done) <= Len(src)
          /\ ran.done = [i \in 1..Len(ran.done) |-> <<src[i], target(i)>>]
          /\ (\A i \in 1..Len(src) :
                /\ IsFile(before, resolve(cwd, src[i]))
                /\ ~IsDir(before, resolve(cwd, target(i)))
                /\ ~UnderFile(before, resolve(cwd, target(i)))) => ran.ok
          /\ ran.ok =>
               /\ Len(ran.done) = Len(src)
               /\ \A i \in 1..Len(src) : IsFile(ran.fs, resolve(cwd, target(i)))
               /\ src # <<>> =>
                    ContentOf(ran.fs, resolve(cwd, target(Len(src))))
                      = ContentOf(before, resolve(cwd, src[Len(src)]))

C15_Witness ==
  /\ obs.run.called /\ rev = 2 /\ obs.run.runner.isFile /\ obs.run.result.ok
  /\ obs.run.dest = Str(<<"out">>)
  /\ obs.run.source =
       List(<<<<"assets", "fonts", "a.ttf">>, <<"assets", "fonts", "b.ttf">>>>)
  /\ [p |-> join(StageDir, <<"out">>), c |-> "c2"] \in fs

\* ---- claims about flows and build(), checked under Spec
\* what the id of a flow is to be derived from
IdKey(fl) == <<fl.cls, fl.source, fl.extension>>

\* C14: the id of a flow is a function of exactly its variant tag, its source
\* and its extension: flows of one project have the same id exactly when they
\* agree on the three, so flows that differ never share a tracked file set.
C14_FlowIdInjective ==
  project.exists =>
    \A i, j \in DOMAIN project.steps :
       (IdKey(project.steps[i].flow) = IdKey(project.steps[j].flow))
         <=> (FlowId(rev, project.steps[i].flow) = FlowId(rev, project.steps[j].flow))

\* the tree a fresh staging area holds: assets/ and, below it, the asset tree
FreshStaging(f, dir) ==
  {[p |-> ASSETS_PATH \o e.p, c |-> e.c] : e \in Tree(f, resolve(dir, ASSETS_PATH))}
    \cup {[p |-> ASSETS_PATH, c |-> "dir"]}

\* C16: when build() enters its steps, the staging area holds exactly a fresh
\* copy of the asset tree and nothing an earlier build staged or produced.
C16_StagingIsFresh ==
  [][(builds' = builds + 1 /\ pc' # "failed")
       => Tree(fs', resolve(cwd, TMP_PATH)) = FreshStaging(fs, cwd)]_vars

NoDuplicates(s) == \A i, j \in 1..Len(s) : s[i] = s[j] => i = j

\* C17: the list build() hands to the runner of a step whose flow resolved to
\* a file list has no path twice and has exactly the paths of the resolution.
C17_HandedIsResolution ==
  \A i \in DOMAIN st :
     (st[i] \in {"running", "done"} /\ res[i].files.k = "list")
       => /\ res[i].handed.k = "list"
          /\ NoDuplicates(res[i].handed.v)
          /\ ToSet(res[i].handed.v) = ToSet(res[i].files.v)

C17_Witness ==
  /\ rev = 1 /\ obs.build.repeat
  /\ \E i \in DOMAIN st :
       /\ st[i] = "running" /\ res[i].files.k = "list" /\ Len(res[i].files.v) = 2
       /\ ToSet(Tracked(obs.encoded.flows, FlowId(rev, project.steps[i].flow)))
            = ToSet(res[i].files.v)

\* C18: the copy to the output location starts only after the runner of every
\* step has completed, and build() returns only after that.
C18_PublishAfterSteps ==
  /\ pc = "publish" => \A i \in DOMAIN st : st[i] = "done"
  /\ obs.build.outcome = "ok" => \A i \in DOMAIN st : st[i] = "done"

\* C19: when a step of build() fails, the output is not published: build/ is
\* as it was when build() was called.
C19_FailureLeavesOutput ==
  (\E i \in DOMAIN st : st[i] = "failed") => Tree(fs, OutDir) = obs.build.out0

C19_Witness ==
  /\ rev # 2 /\ pc = "failed" /\ obs.build.phase = "steps"
  /\ \E i \in DOMAIN st : i > 1 /\ st[i] = "failed"
  /\ \E e \in Tree(fs, OutDir) : e.c # "dir"
  /\ \E e \in Tree(fs, join(StageDir, BUILD_PATH)) : e.c # "dir"

====
